---- MODULE Spec2Model ----
(***************************************************************************)
(* A model of the finance dashboard (src/main.py): the persisted category  *)
(* store, CSV ingestion, keyword/snapshot classification and the "Add      *)
(* Category" / "Apply Changes" handlers, one action per Streamlit script   *)
(* run.                                                                    *)
(*                                                                         *)
(* Text values (category names, keywords, Details) are sequences of        *)
(* one-character strings, so that str.strip() and str.lower() are computed *)
(* and not assumed.  Python's None is the empty tuple and a present value  *)
(* x is <<x>>.                                                             *)
(***************************************************************************)
EXTENDS Integers, Sequences, FiniteSets, TLC

VARIABLES
    categories,               \* st.session_state.categories: ordered dict, a sequence of [name, keywords]
    category_file,            \* categories.json: None, or Some(JSON text)
    categorized_transactions, \* st.session_state.categorized_transactions: None, or Some(rows)
    debits_df,                \* st.session_state.debits_df: None (never set), or Some(rows)
    uploaded_file,            \* the file held by st.file_uploader: None, or Some(file)
    df,                       \* what load_transactions returned in the last script run
    edited_df,                \* the Category column st.data_editor returned in the last script run
    calls,                    \* the add_keyword_to_category calls of the last script run, in order
    op,                       \* the interaction that started the last script run, with what was typed
    outcome                   \* how far the last script run got

vars == <<categories, category_file, categorized_transactions, debits_df,
          uploaded_file, df, edited_df, calls, op, outcome>>

(***************************************************************************)
(* Bounds of the model.                                                    *)
(***************************************************************************)
MaxRows == 2         \* rows of an uploaded CSV, and of a table the user edits
MaxCategories == 3   \* keys of the category store, in StoreSpec

None == <<>>
Some(x) == <<x>>
IsSome(o) == o /= <<>>
Val(o) == o[1]

(***************************************************************************)
(* Text.                                                                   *)
(***************************************************************************)
Whitespace == {" "}

\* str.lower(), one character
LowerChar(c) == CASE c = "A" -> "a" [] c = "F" -> "f" [] c = "G" -> "g" [] c = "U" -> "u" [] OTHER -> c

\* str.lower()
Lower(s) == [i \in DOMAIN s |-> LowerChar(s[i])]

RECURSIVE LStrip(_)
LStrip(s) == IF s /= <<>> /\ Head(s) \in Whitespace THEN LStrip(Tail(s)) ELSE s

RECURSIVE RStrip(_)
RStrip(s) == IF s /= <<>> /\ s[Len(s)] \in Whitespace THEN RStrip(SubSeq(s, 1, Len(s) - 1)) ELSE s

\* str.strip()
Strip(s) == RStrip(LStrip(s))

Uncategorized == <<"U", "n", "c", "a", "t", "e", "g", "o", "r", "i", "z", "e", "d">>

\* the value of an emptied Category cell (None in the editor's frame, NaN after a merge)
NaN == <<"NaN">>

(***************************************************************************)
(* The category store: a Python dict, which keeps insertion order.         *)
(***************************************************************************)
DefaultCategories == << [name |-> Uncategorized, keywords |-> <<>>] >>

Keys(S) == {S[i].name : i \in DOMAIN S}

SeqToSet(s) == {s[i] : i \in DOMAIN s}

\* S[category], for a key of S
KeywordsOf(S, category) == S[CHOOSE i \in DOMAIN S : S[i].name = category].keywords

\* json.dump(categories, f): the JSON object as its list of (key, array) members
json_dump(S) == [i \in DOMAIN S |-> <<S[i].name, S[i].keywords>>]

\* json.load(f)
json_load(j) == [i \in DOMAIN j |-> [name |-> j[i][1], keywords |-> j[i][2]]]

\* save_categories(): the new content of categories.json
save_categories(S) == Some(json_dump(S))

\* The module-level load: the session's categories after lines 12-23
LoadCategories(S, f) == IF IsSome(f) THEN json_load(Val(f)) ELSE S

\* add_keyword_to_category without line 88: the keyword is stored as given
add_keyword_to_category_unstripped(S, category, keyword) ==
    IF Strip(keyword) = <<>>
    THEN [categories |-> S, saved |-> FALSE, ret |-> "False"]
    ELSE IF category \notin Keys(S)
    THEN [categories |-> S, saved |-> FALSE, ret |-> "KeyError"]
    ELSE IF keyword \notin SeqToSet(KeywordsOf(S, category))
    THEN [categories |-> [i \in DOMAIN S |->
                             IF S[i].name = category
                             THEN [S[i] EXCEPT !.keywords = Append(@, keyword)]
                             ELSE S[i]],
          saved |-> TRUE, ret |-> "True"]
    ELSE [categories |-> S, saved |-> FALSE, ret |-> "False"]

(***************************************************************************)
(* add_keyword_to_category(category, keyword), lines 87-94.  The result is *)
(* the store, whether save_categories() ran, and what the call returned:   *)
(* "True", "False", or the "KeyError" that categories[category] raises.    *)
(***************************************************************************)
add_keyword_to_category(S, category, keyword) ==
    LET kw == Strip(keyword) IN
    IF kw = <<>>
    THEN [categories |-> S, saved |-> FALSE, ret |-> "False"]
    ELSE IF category \notin Keys(S)
    THEN [categories |-> S, saved |-> FALSE, ret |-> "KeyError"]
    ELSE IF kw \notin SeqToSet(KeywordsOf(S, category))
    THEN [categories |-> [i \in DOMAIN S |->
                             IF S[i].name = category
                             THEN [S[i] EXCEPT !.keywords = Append(@, kw)]
                             ELSE S[i]],
          saved |-> TRUE, ret |-> "True"]
    ELSE [categories |-> S, saved |-> FALSE, ret |-> "False"]

(***************************************************************************)
(* categorize_transactions(df), lines 29-42.                               *)
(***************************************************************************)
\* line 33: the categories whose rows loop is skipped
Skipped(entry) == entry.name = Uncategorized \/ entry.keywords = <<>>

\* lines 36-41, for one category
MatchCategory(rows, entry) ==
    LET lowered_keywords == {Strip(Lower(entry.keywords[k])) : k \in DOMAIN entry.keywords} IN
    [r \in DOMAIN rows |->
        IF Strip(Lower(rows[r].Details)) \in lowered_keywords
        THEN [rows[r] EXCEPT !.Category = entry.name]
        ELSE rows[r]]

RECURSIVE CategorizeFrom(_, _, _)
CategorizeFrom(rows, S, i) ==
    IF i > Len(S) THEN rows
    ELSE CategorizeFrom(IF Skipped(S[i]) THEN rows ELSE MatchCategory(rows, S[i]), S, i + 1)

categorize_transactions(rows, S) ==
    CategorizeFrom([r \in DOMAIN rows |->
                       [Details |-> rows[r].Details, DC |-> rows[r].DC, Category |-> Uncategorized]],
                   S, 1)

\* row["Details"] (line 39) is evaluated only inside the rows loop of a category that is not skipped
ReadsDetails(rows, S) == rows /= <<>> /\ \E i \in DOMAIN S : ~Skipped(S[i])

(***************************************************************************)
(* load_transactions(file), lines 44-85.  A file is its header (the column *)
(* names as line 47 leaves them), the kind of text in its Amount and Date  *)
(* columns, and its rows' Details and Debit/Credit.                        *)
(***************************************************************************)
\* line 50: pandas reads a column of plain numbers as a numeric dtype, anything else as object
AmountIsObject(kind) == kind /= "numeric"

\* lines 52 and 55: astype(float), after the commas are removed
AmountConverts(kind) == IF AmountIsObject(kind) THEN kind = "commas" ELSE TRUE

\* lines 58-67: the three attempts, each on the whole column
DateConverts(kind) ==
    IF kind = "%d/%m/%Y" THEN TRUE
    ELSE IF kind = "%d %b %Y" THEN TRUE
    ELSE kind = "other"

\* df["Category"].fillna("Uncategorized"), line 78, for one cell
fillna(category) == IF category = NaN THEN Uncategorized ELSE category

\* df.merge(snapshot[["Details", "Category"]], on="Details", how="left") and fillna, lines 72-78
RECURSIVE MergeRow(_, _, _)
MergeRow(row, snap, j) ==
    IF j > Len(snap) THEN <<>>
    ELSE (IF snap[j].Details = row.Details
          THEN << [Details |-> row.Details, DC |-> row.DC, Category |-> fillna(snap[j].Category)] >>
          ELSE <<>>) \o MergeRow(row, snap, j + 1)

RECURSIVE Merge(_, _, _)
Merge(rows, snap, i) ==
    IF i > Len(rows) THEN <<>>
    ELSE LET m == MergeRow(rows[i], snap, 1) IN
         (IF m = <<>>
          THEN << [Details |-> rows[i].Details, DC |-> rows[i].DC, Category |-> fillna(NaN)] >>
          ELSE m) \o Merge(rows, snap, i + 1)

\* load_transactions with the keyword rules applied to the rows the Snapshot does not match
load_transactions_keyword_fallback(file, snapshot, S) ==
    IF "Amount" \notin file.columns THEN None
    ELSE IF ~AmountConverts(file.amount) THEN None
    ELSE IF "Date" \notin file.columns THEN None
    ELSE IF ~DateConverts(file.date) THEN None
    ELSE IF IsSome(snapshot)
    THEN (IF "Details" \notin file.columns THEN None
          ELSE LET merged == Merge(file.rows, Val(snapshot), 1) IN
               Some([i \in DOMAIN merged |->
                        IF \E j \in DOMAIN Val(snapshot) : Val(snapshot)[j].Details = merged[i].Details
                        THEN merged[i]
                        ELSE categorize_transactions(<<merged[i]>>, S)[1]]))
    ELSE (IF "Details" \notin file.columns /\ ReadsDetails(file.rows, S) THEN None
          ELSE Some(categorize_transactions(file.rows, S)))

\* None when an exception is caught at line 83, else Some(the rows of df)
load_transactions(file, snapshot, S) ==
    IF "Amount" \notin file.columns THEN None
    ELSE IF ~AmountConverts(file.amount) THEN None
    ELSE IF "Date" \notin file.columns THEN None
    ELSE IF ~DateConverts(file.date) THEN None
    ELSE IF IsSome(snapshot)
    THEN (IF "Details" \notin file.columns THEN None
          ELSE Some(Merge(file.rows, Val(snapshot), 1)))
    ELSE (IF "Details" \notin file.columns /\ ReadsDetails(file.rows, S) THEN None
          ELSE Some(categorize_transactions(file.rows, S)))

(***************************************************************************)
(* Inputs: the texts a user types and the files a user uploads.            *)
(***************************************************************************)
Food == <<"F">>
Gym == <<"G">>
Blank == <<" ">>

\* Details of a debit row: "A " and " "
DetailsValues == { <<"A", " ">>, Blank }

\* what is typed into "New category name" in a session
NameValues == { <<>>, Food, Uncategorized }

RequiredColumns == {"Date", "Details", "Amount", "Debit/Credit"}

FileRows == [Details : DetailsValues, DC : {"Debit"}]

RowSeqs == UNION { [1..n -> FileRows] : n \in 0..MaxRows }

\* well-formed statements, with every choice of debit rows
PlainFiles ==
    { [columns |-> RequiredColumns, amount |-> "numeric", date |-> "%d/%m/%Y", rows |-> r] : r \in RowSeqs }

OneRow == << [Details |-> <<"A", " ">>, DC |-> "Debit"] >>

\* a debit and a credit whose Details are equal once lowered and stripped
MixedRows == << [Details |-> <<"A", " ">>, DC |-> "Debit"], [Details |-> <<"a">>, DC |-> "Credit"] >>

\* the other well-formed formats of the Amount and Date columns
FormatFiles ==
    { [columns |-> RequiredColumns, amount |-> "commas", date |-> "%d %b %Y", rows |-> MixedRows],
      [columns |-> RequiredColumns, amount |-> "numeric", date |-> "other", rows |-> OneRow] }

\* a malformed Amount, a malformed Date, or a required column missing
DefectiveFiles ==
    { [columns |-> RequiredColumns, amount |-> "malformed", date |-> "%d/%m/%Y", rows |-> OneRow],
      [columns |-> RequiredColumns, amount |-> "numeric", date |-> "malformed", rows |-> OneRow] }
    \cup { [columns |-> RequiredColumns \ {c}, amount |-> "numeric", date |-> "%d/%m/%Y", rows |-> OneRow]
             : c \in RequiredColumns }

Files == PlainFiles \cup FormatFiles \cup DefectiveFiles

(***************************************************************************)
(* main(), lines 97-217: one script run.                                   *)
(***************************************************************************)
\* df[df["Debit/Credit"] == "Debit"], line 106
Debits(rows) == SelectSeq(rows, LAMBDA r : r.DC = "Debit")

CategoryColumn(rows) == [i \in DOMAIN rows |-> rows[i].Category]

\* Lines 12-109 of a run with `upload` in the uploader: the reloaded store, what
\* load_transactions returned, and how far the run got:
\*   "no_file"               nothing uploaded (line 102)
\*   "parse_error"           load_transactions caught an exception and returned None (line 105)
\*   "KeyError:Debit/Credit" df["Debit/Credit"] raised at line 106
\*   "tab1"                  debits_df was assigned at line 109
PreludeOf(upload, S, loaded) ==
    [categories |-> S,
     df |-> loaded,
     stage |-> IF ~IsSome(upload) THEN "no_file"
               ELSE IF ~IsSome(loaded) THEN "parse_error"
               ELSE IF "Debit/Credit" \notin Val(upload).columns THEN "KeyError:Debit/Credit"
               ELSE "tab1",
     debits |-> IF IsSome(upload) /\ IsSome(loaded) /\ "Debit/Credit" \in Val(upload).columns
                THEN Some(Debits(Val(loaded)))
                ELSE debits_df]

Prelude(upload) ==
    LET S == LoadCategories(categories, category_file) IN
    PreludeOf(upload, S,
              IF IsSome(upload)
              THEN load_transactions(Val(upload), categorized_transactions, S)
              ELSE None)

\* Lines 122-196 after the handlers of tab1: the charts, then st.data_editor over
\* debits_df[["Date", "Details", "Amount", "Category"]], which raises when Details is missing
Rendered(upload) == IF "Details" \in Val(upload).columns THEN "ok" ELSE "KeyError:Details"

\* the "Add Category" handler, lines 116-119: the store, and whether save_categories() ran
create_category(S, category) ==
    IF category /= <<>> /\ category \notin Keys(S)
    THEN [categories |-> Append(S, [name |-> category, keywords |-> <<>>]), saved |-> TRUE]
    ELSE [categories |-> S, saved |-> FALSE]

\* lines 206-211 for a changed row i, given what add_keyword_to_category returned
ApplyRow(st, category, i, r) ==
    [categories |-> r.categories,
     file |-> IF r.saved THEN save_categories(r.categories) ELSE st.file,
     debits |-> [st.debits EXCEPT ![i].Category = category],
     calls |-> Append(st.calls, [category |-> category,
                                 keyword |-> st.debits[i].Details,
                                 ret |-> r.ret]),
     raised |-> r.ret = "KeyError"]

\* the rows loop of the "Apply Changes" handler, lines 201-211, from row i on
RECURSIVE ApplyRows(_, _, _)
ApplyRows(st, edited, i) ==
    IF i > Len(edited) \/ st.raised THEN st
    ELSE IF edited[i] = st.debits[i].Category THEN ApplyRows(st, edited, i + 1)
    ELSE ApplyRows(ApplyRow(st, edited[i], i,
                            add_keyword_to_category(st.categories, edited[i], st.debits[i].Details)),
                   edited, i + 1)

\* lines 213-216, or the end of a run that add_keyword_to_category's KeyError stopped
ApplyEnd(done) ==
    IF done.raised
    THEN [outcome |-> "KeyError:categories", file |-> done.file, snapshot |-> categorized_transactions]
    ELSE [outcome |-> "ok", file |-> save_categories(done.categories), snapshot |-> Some(done.debits)]

\* What the editor can return (lines 180-196): in every cell one of the store's keys
\* (line 190) or, the column not being `required`, nothing at all.
Edits(P) == [1..Len(Val(P.debits)) -> Keys(P.categories) \cup {NaN}]

Init ==
    /\ categories = DefaultCategories
    /\ category_file = None
    /\ categorized_transactions = None
    /\ debits_df = None
    /\ uploaded_file = None
    /\ df = None
    /\ edited_df = <<>>
    /\ calls = <<>>
    /\ op = <<"start">>
    /\ outcome = "no_file"

\* A new session (a browser reload or a restart of the process): session_state is
\* empty, lines 12-23 run, nothing is uploaded yet.
Restart ==
    /\ categories' = LoadCategories(DefaultCategories, category_file)
    /\ categorized_transactions' = None
    /\ debits_df' = None
    /\ uploaded_file' = None
    /\ df' = None
    /\ edited_df' = <<>>
    /\ calls' = <<>>
    /\ op' = <<"start">>
    /\ outcome' = "no_file"
    /\ UNCHANGED category_file

\* The user puts file f in the uploader: a script run with no button pressed.
Upload(f) ==
    \E P \in {Prelude(Some(f))} :
    /\ uploaded_file' = Some(f)
    /\ categories' = P.categories
    /\ df' = P.df
    /\ debits_df' = P.debits
    /\ outcome' = IF P.stage = "tab1" THEN Rendered(Some(f)) ELSE P.stage
    /\ edited_df' = IF P.stage = "tab1" /\ Rendered(Some(f)) = "ok"
                    THEN CategoryColumn(Val(P.debits)) ELSE <<>>
    /\ calls' = <<>>
    /\ op' = <<"upload">>
    /\ UNCHANGED <<category_file, categorized_transactions>>

\* The user types `name` and presses "Add Category" (lines 113-120); the button
\* exists only if the last run reached tab1.  After an insertion st.rerun()
\* (line 120) runs the script again from the top, with no button pressed.
AddCategory(name) ==
    /\ outcome \in {"ok", "KeyError:Details", "KeyError:categories"}
    /\ \E P \in {Prelude(uploaded_file)} :
       \E c \in {create_category(P.categories, name)} :
       \E file \in {IF c.saved THEN save_categories(c.categories) ELSE category_file} :
       \E R \in {IF c.saved
                 THEN PreludeOf(uploaded_file, LoadCategories(c.categories, file),
                                load_transactions(Val(uploaded_file), categorized_transactions,
                                                  LoadCategories(c.categories, file)))
                 ELSE P} :
        /\ P.stage = "tab1"
        /\ categories' = R.categories
        /\ category_file' = file
        /\ df' = R.df
        /\ debits_df' = R.debits
        /\ outcome' = IF R.stage = "tab1" THEN Rendered(uploaded_file) ELSE R.stage
        /\ edited_df' = IF R.stage = "tab1" /\ Rendered(uploaded_file) = "ok"
                        THEN CategoryColumn(Val(R.debits)) ELSE <<>>
        /\ calls' = <<>>
        /\ op' = <<"add_category", name>>
        /\ UNCHANGED <<uploaded_file, categorized_transactions>>

\* The user edits the Category column to `edited` (each cell one of the store's
\* keys, or emptied) and presses "Apply Changes" (lines 198-217); the button
\* exists only if the last run rendered the editor.
ApplyChanges ==
    /\ outcome \in {"ok", "KeyError:categories"}
    /\ \E P \in {Prelude(uploaded_file)} :
        /\ P.stage = "tab1"
        /\ Len(Val(P.debits)) <= MaxRows
        /\ \E edited \in Edits(P) :
           \E done \in {ApplyRows([categories |-> P.categories, file |-> category_file,
                                   debits |-> Val(P.debits), calls |-> <<>>, raised |-> FALSE],
                                  edited, 1)} :
           \E end \in {ApplyEnd(done)} :
            /\ df' = P.df
            /\ edited_df' = edited
            /\ calls' = done.calls
            /\ categories' = done.categories
            /\ debits_df' = Some(done.debits)
            /\ op' = <<"apply">>
            /\ outcome' = end.outcome
            /\ category_file' = end.file
            /\ categorized_transactions' = end.snapshot
            /\ UNCHANGED uploaded_file

Next ==
    \/ Restart
    \/ \E f \in Files : Upload(f)
    \/ \E name \in NameValues : AddCategory(name)
    \/ ApplyChanges

Spec == Init /\ [][Next]_vars

(***************************************************************************)
(* StoreSpec: the store's operations called one at a time, on any          *)
(* arguments: the "Add Category" handler, add_keyword_to_category and      *)
(* categorize_transactions on a fresh one-row frame.  df and calls hold    *)
(* what the last call returned.                                            *)
(***************************************************************************)
StoreNames == { <<>>, Blank, Food, Gym, Uncategorized }

KeywordValues == { <<>>, Blank, <<"a">>, <<"A", " ">> }

ProbeValues == { <<"a">>, <<" ", "A">>, Blank }

CreateCategory(name) ==
    \E c \in {create_category(categories, name)} :
    /\ c.saved => Len(categories) < MaxCategories
    /\ categories' = c.categories
    /\ category_file' = IF c.saved THEN save_categories(c.categories) ELSE category_file
    /\ op' = <<"create_category", name>>
    /\ calls' = <<>>
    /\ df' = None
    /\ UNCHANGED <<categorized_transactions, debits_df, uploaded_file, edited_df, outcome>>

AddKeyword(category, keyword) ==
    \E r \in {add_keyword_to_category(categories, category, keyword)} :
    /\ categories' = r.categories
    /\ category_file' = IF r.saved THEN save_categories(r.categories) ELSE category_file
    /\ op' = <<"add_keyword">>
    /\ calls' = << [category |-> category, keyword |-> keyword, ret |-> r.ret] >>
    /\ df' = None
    /\ UNCHANGED <<categorized_transactions, debits_df, uploaded_file, edited_df, outcome>>

Categorize(details) ==
    /\ df' = Some(categorize_transactions(<< [Details |-> details, DC |-> "Debit"] >>, categories))
    /\ op' = <<"categorize">>
    /\ calls' = <<>>
    /\ UNCHANGED <<categories, category_file, categorized_transactions, debits_df,
                   uploaded_file, edited_df, outcome>>

StoreNext ==
    \/ \E name \in StoreNames : CreateCategory(name)
    \/ \E category \in StoreNames, keyword \in KeywordValues : AddKeyword(category, keyword)
    \/ \E details \in ProbeValues : Categorize(details)

StoreSpec == Init /\ [][StoreNext]_vars

(***************************************************************************)
(* Properties.                                                             *)
(***************************************************************************)
\* the normalisation of lines 36 and 39
Norm(text) == Strip(Lower(text))

DetailsIn(rows, details) == \E j \in DOMAIN rows : rows[j].Details = details

\* the Category of the last row of `rows` with these Details, "Uncategorized" when there is none
LastCategory(rows, details) ==
    IF DetailsIn(rows, details)
    THEN rows[CHOOSE j \in DOMAIN rows :
                 /\ rows[j].Details = details
                 /\ \A k \in DOMAIN rows : rows[k].Details = details => k <= j].Category
    ELSE Uncategorized

\* no Category cell of `rows` is empty
Categorized(rows) == \A j \in DOMAIN rows : rows[j].Category /= NaN

NoDuplicates(S) ==
    \A i \in DOMAIN S : \A j, k \in DOMAIN S[i].keywords :
        S[i].keywords[j] = S[i].keywords[k] => j = k

\* a file with a malformed Amount or Date, or without one of the required columns
Defective(f) ==
    \/ f.amount = "malformed"
    \/ f.date = "malformed"
    \/ ~(RequiredColumns \subseteq f.columns)

\* the last script run classified the uploaded file against a Snapshot that is still the session's
ReconciledUpload ==
    /\ op[1] = "upload"
    /\ IsSome(categorized_transactions)
    /\ IsSome(df)

\* C1: "Uncategorized" is always a key of the store, and "Apply Changes" never
\* appends a record's Details to the keywords of "Uncategorized", not even when
\* a record is moved back to "Uncategorized".
C1_UncategorizedNeverLearns ==
    /\ Uncategorized \in Keys(categories)
    /\ op[1] = "apply" =>
         \A i \in DOMAIN calls : ~(calls[i].category = Uncategorized /\ calls[i].ret = "True")

\* C2: a fresh record whose Details equals, up to case and surrounding
\* whitespace, a keyword that was added to category c is classified as c in
\* keyword mode, whatever other category holds the same keyword.  (Stated for
\* stores without a blank category name and for the categories that matching
\* does not skip; it fails already there.)
C2_KeywordClassifies ==
    (op[1] = "categorize" /\ \A n \in Keys(categories) : Strip(n) /= <<>>) =>
        \A i \in DOMAIN categories :
            (/\ categories[i].name /= Uncategorized
             /\ \E k \in DOMAIN categories[i].keywords :
                    Norm(categories[i].keywords[k]) = Norm(Val(df)[1].Details))
            => Val(df)[1].Category = categories[i].name

\* C3: in snapshot mode the classified dataset has exactly one record per input
\* record, in input order, each with the Category of the most recent Snapshot
\* record of the same Details, or "Uncategorized" when there is none.  (Stated
\* for Snapshots without an empty Category cell; it fails already for those.)
C3_OneRecordPerInput ==
    (ReconciledUpload /\ Categorized(Val(categorized_transactions))) =>
        LET rows == Val(uploaded_file).rows
            out == Val(df)
        IN  /\ Len(out) = Len(rows)
            /\ \A i \in DOMAIN rows :
                /\ out[i].Details = rows[i].Details
                /\ out[i].Category = LastCategory(Val(categorized_transactions), rows[i].Details)

\* C4 as claimed: with a Snapshot, a record whose Details appears in the
\* Snapshot receives the Snapshot's Category for it, and any other record
\* receives "Uncategorized", whatever the keyword rules say.
C4_SnapshotCategoryVerbatim ==
    ReconciledUpload =>
        \A i \in DOMAIN Val(df) :
            LET r == Val(df)[i]
                snap == Val(categorized_transactions)
            IN  IF DetailsIn(snap, r.Details)
                THEN \E j \in DOMAIN snap : snap[j].Details = r.Details /\ snap[j].Category = r.Category
                ELSE r.Category = Uncategorized

\* C4 as amended: with a Snapshot, a record whose Details appears in the
\* Snapshot receives the Category of a Snapshot record with that Details, an
\* empty Category cell being read as "Uncategorized", and any other record
\* receives "Uncategorized", whatever the keyword rules say.  (The classified
\* dataset holds the Details of the input records and no other.)
C4_SnapshotDecides ==
    ReconciledUpload =>
        LET out == Val(df)
            snap == Val(categorized_transactions)
            rows == Val(uploaded_file).rows
        IN  /\ \A i \in DOMAIN rows : DetailsIn(out, rows[i].Details)
            /\ \A i \in DOMAIN out : DetailsIn(rows, out[i].Details)
            /\ \A i \in DOMAIN out :
                IF DetailsIn(snap, out[i].Details)
                THEN \E j \in DOMAIN snap :
                        /\ snap[j].Details = out[i].Details
                        /\ out[i].Category = (IF snap[j].Category = NaN THEN Uncategorized
                                              ELSE snap[j].Category)
                ELSE out[i].Category = Uncategorized

\* a reconciled upload in which one record took its Category from the Snapshot
\* and another, absent from the Snapshot, stayed "Uncategorized" although a
\* keyword of some category matches its Details
C4_Witness ==
    /\ ReconciledUpload
    /\ \E i \in DOMAIN Val(df) :
        /\ DetailsIn(Val(categorized_transactions), Val(df)[i].Details)
        /\ Val(df)[i].Category = Food
    /\ \E i \in DOMAIN Val(df) : \E c \in DOMAIN categories :
        /\ ~DetailsIn(Val(categorized_transactions), Val(df)[i].Details)
        /\ Val(df)[i].Category = Uncategorized
        /\ ~Skipped(categories[c])
        /\ \E k \in DOMAIN categories[c].keywords :
               Norm(categories[c].keywords[k]) = Norm(Val(df)[i].Details)

\* C5: classifying the records of a categorized dataset with the dataset itself
\* as the Snapshot yields as many records, with the same Categories.
C5_ReconcileIdempotent ==
    (/\ ReconciledUpload
     /\ Categorized(Val(categorized_transactions))
     /\ Val(uploaded_file).rows =
            [i \in DOMAIN Val(categorized_transactions) |->
                [Details |-> Val(categorized_transactions)[i].Details, DC |-> "Debit"]])
    => /\ Len(Val(df)) = Len(Val(categorized_transactions))
       /\ CategoryColumn(Val(df)) = CategoryColumn(Val(categorized_transactions))

\* C6: the "Add Category" handler inserts the name with no keywords and saves
\* when the name is absent from the store and not empty after trimming;
\* otherwise it leaves the store and the file as they were.
C6_CreateCategory ==
    [][op'[1] = "create_category" =>
        LET name == op'[2] IN
        IF name \notin Keys(categories) /\ Strip(name) /= <<>>
        THEN /\ categories' = Append(categories, [name |-> name, keywords |-> <<>>])
             /\ category_file' = Some(json_dump(categories'))
        ELSE /\ categories' = categories
             /\ category_file' = category_file]_vars

\* C7: add_keyword_to_category returns False and leaves the store unchanged when
\* the trimmed keyword is empty, the category is not a key, or the trimmed
\* keyword is already in the category's list; no list ever holds a duplicate.
C7_AddKeywordRejects ==
    [][op'[1] = "add_keyword" =>
        LET c == calls'[1]
            kw == Strip(c.keyword)
            rejected == \/ kw = <<>>
                        \/ c.category \notin Keys(categories)
                        \/ kw \in SeqToSet(KeywordsOf(categories, c.category))
        IN  /\ rejected => (c.ret = "False" /\ categories' = categories)
            /\ NoDuplicates(categories')]_vars

\* C8: uploading a file with a malformed Amount or Date, or without a required
\* column, ends in a reported parse error with no dataset, and leaves the
\* Snapshot, the Debit dataset and the store as they were.
C8_DefectiveFileRejected ==
    [][(op'[1] = "upload" /\ Defective(Val(uploaded_file'))) =>
        /\ outcome' = "parse_error"
        /\ df' = None
        /\ categorized_transactions' = categorized_transactions
        /\ debits_df' = debits_df
        /\ categories' = categories]_vars

\* the store a new session loads from the file as this step leaves it
Reloaded == LoadCategories(DefaultCategories, category_file)

\* after a mutating operation the store a new session would load is the store in memory
PersistedAfterMutation ==
    /\ (op'[1] = "add_category" /\ categories' /= categories) => Reloaded' = categories'
    /\ op'[1] = "apply" => Reloaded' = categories'

\* C9 as claimed: after every mutating operation the persisted rules equal the
\* store in memory, and after "Apply Changes" moved a record from
\* "Uncategorized" to c the reloaded store has its trimmed Details under c.
C9_LearnedAfterReload ==
    [][/\ PersistedAfterMutation
       /\ (op'[1] = "apply" /\ outcome' = "ok") =>
            \A i \in DOMAIN edited_df' :
                LET old == Val(Prelude(uploaded_file).debits)[i] IN
                (/\ old.Category = Uncategorized
                 /\ edited_df'[i] \in Keys(categories') \ {Uncategorized})
                => Strip(old.Details) \in SeqToSet(KeywordsOf(Reloaded', edited_df'[i]))]_vars

\* C9 as amended: the same, for a record whose trimmed Details is not empty.
C9_Persistence ==
    [][/\ PersistedAfterMutation
       /\ (op'[1] = "apply" /\ outcome' = "ok") =>
            \A i \in DOMAIN edited_df' :
                LET old == Val(Prelude(uploaded_file).debits)[i] IN
                (/\ old.Category = Uncategorized
                 /\ edited_df'[i] \in Keys(categories') \ {Uncategorized}
                 /\ Strip(old.Details) /= <<>>)
                => Strip(old.Details) \in SeqToSet(KeywordsOf(Reloaded', edited_df'[i]))]_vars

\* "Apply Changes" has just learned a keyword for Food from a record it moved
\* there, the file holds it, and another record's Details was rejected
C9_Witness ==
    /\ op[1] = "apply"
    /\ outcome = "ok"
    /\ \E i \in DOMAIN calls :
        /\ calls[i].category = Food
        /\ calls[i].ret = "True"
        /\ Strip(calls[i].keyword) \in SeqToSet(KeywordsOf(Reloaded, Food))
    /\ \E i \in DOMAIN calls : calls[i].category = Food /\ calls[i].ret = "False"

\* C10: "Apply Changes" completes; every record carries its edited Category
\* afterwards, changed or not, whatever add_keyword_to_category did with its
\* Details; every changed record's keyword was offered to the store; and the
\* Snapshot is the updated Debit dataset.
C10_ApplyProcessesAll ==
    [][op'[1] = "apply" =>
        LET old == Val(Prelude(uploaded_file).debits)
            new == Val(debits_df')
        IN  /\ outcome' = "ok"
            /\ Len(new) = Len(old)
            /\ \A i \in DOMAIN old :
                /\ new[i].Details = old[i].Details
                /\ new[i].Category = edited_df'[i]
                /\ (/\ edited_df'[i] /= old[i].Category
                    /\ edited_df'[i] \in Keys(categories')
                    /\ Strip(old[i].Details) /= <<>>)
                   => Strip(old[i].Details) \in SeqToSet(KeywordsOf(categories', edited_df'[i]))
            /\ categorized_transactions' = debits_df']_vars

====
